---- MODULE Spec2Model ----
(***************************************************************************)
(* A model of catalysis/pynblast.py: NBLAST pair scoring, the score-table  *)
(* lookup, the parallel batch, the evidence fusion and the bipartite       *)
(* matcher.                                                                *)
(*                                                                         *)
(* Similarity scores are kept in tenths (4 is 0.4, 10 is 1.0).             *)
(***************************************************************************)
EXTENDS Integers, Sequences, FiniteSets, TLC

VARIABLES
    Sb,              \* the caller's score matrix (Queries x Targets)
    min_similarity,  \* the threshold handed to max_match_similarity
    enforce_match,   \* the forced (query, target) pairs handed to it
    enforce_match_val, \* the score written into the forced cells
    B,               \* the graph built by similarity_matrix_to_adjacency
    matching,        \* what max_weight_matching returned
    match_df,        \* the rows max_match_similarity returned
    match_pc,        \* "input", "returned", "KeyError"
    score_lookup,    \* a ScoreMatrixLookup object: mat, d_range, udotv_range
    score_labels,    \* the row and column labels it was built from
    score_args,      \* the (d, udotv) of the last call of score
    score_inds,      \* the (ind_d, ind_udotv) that call computed
    score_out,       \* the value that call returned
    score_pc,        \* "built", "scored", "IndexError"
    nrn_q,           \* the paths of the query neuron of a pair
    nrn_t,           \* the paths of the target neuron of a pair
    dp_q,            \* the query dotprop handed to _nblast_neuron_pair_for_mp
    dp_t,            \* the target dotprop handed to it
    pair_call,       \* the function called on the pair and its other arguments
    pair_out,        \* the outcome of the call (q, t) and of the call (t, q)
    pool_call,       \* the arguments of a call of nblast_neurons
    pool_pc,         \* where the call is: "start", "map_q", "map_t", "map_pairs", "done", "raised"
    pool_loop,       \* the iteration of the loop over nrns_t
    pool_q_dotprop,  \* nrns_q_dotprop: neuron id -> dotprop
    pool_t_dotprop,  \* nrns_t_dotprop
    pool_tasks,      \* the tasks of the pool.map under way
    pool_next,       \* the next task of the queue
    pool_running,    \* the tasks the workers are computing
    pool_results,    \* the list pool.map will return
    pool_overtaken,  \* a result of the map arrived before that of an earlier task
    pool_df,         \* the data frame nblast_neurons returned
    fusion_call,     \* the arguments of a call of match_likelihood_ratio
    fusion_sources,  \* the frames it merges: Sqt, Stq, Ds, P_con
    fusion_Stot,     \* the frame it returned
    fusion_pc,       \* "input", "returned"
    fn_call,         \* a call of one of the vectorized functions: its name and arguments
    fn_out           \* what the call returned or raised

match_vars == <<Sb, min_similarity, enforce_match, enforce_match_val, B, matching, match_df, match_pc>>

lookup_vars == <<score_lookup, score_labels, score_args, score_inds, score_out, score_pc>>

pair_vars == <<nrn_q, nrn_t, dp_q, dp_t, pair_call, pair_out>>

pool_vars == <<pool_call, pool_pc, pool_loop, pool_q_dotprop, pool_t_dotprop, pool_tasks,
               pool_next, pool_running, pool_results, pool_overtaken, pool_df>>

fusion_vars == <<fusion_call, fusion_sources, fusion_Stot, fusion_pc>>

call_vars == <<fn_call, fn_out>>

vars == <<match_vars, lookup_vars, pair_vars, pool_vars, fusion_vars, call_vars>>

----------------------------------------------------------------------------
(* Bounds of the model.                                                    *)

MaxScoreLevel == 3     \* scores are ScoreStep * (0 .. MaxScoreLevel) tenths
ScoreStep == 2
MaxForced == 1         \* at most this many forced matches per call

(* Defaults of max_match_similarity, in tenths.                            *)
DefaultMinSimilarity == 4
DefaultEnforceMatchVal == 10

ScoreValues == {ScoreStep * k : k \in 0 .. MaxScoreLevel}

MinSimilarities == {0, DefaultMinSimilarity, DefaultEnforceMatchVal}

----------------------------------------------------------------------------
(* Neurons and their labels.                                               *)

Neurons == { [name |-> "a", id |-> 1], [name |-> "b", id |-> 2],
             [name |-> "c", id |-> 3], [name |-> "d", id |-> 4] }

NeuronById(i) == CHOOSE n \in Neurons : n.id = i

(* name_number: the label "name (id)", kept as the pair of its parts.      *)
name_number(nrn) == <<nrn.name, nrn.id>>

(* name_number_to_id: the digits in the trailing parentheses.              *)
name_number_to_id(name_num) == name_num[2]

Lab(i) == name_number(NeuronById(i))

(* The label lists of the matrices handed to the matcher: a set against a  *)
(* disjoint set, against an overlapping set, and against itself.           *)
MatrixShapes ==
    { <<<<Lab(1), Lab(2)>>, <<Lab(3), Lab(4)>>>>,
      <<<<Lab(2), Lab(3)>>, <<Lab(3), Lab(4)>>>>,
      <<<<Lab(3), Lab(4)>>, <<Lab(3), Lab(4)>>>> }

Range(s) == {s[i] : i \in 1 .. Len(s)}

(* A score matrix: row labels, column labels, one score per cell.          *)
Matrices ==
    UNION { { [index |-> sh[1], columns |-> sh[2], val |-> v] :
                v \in [Range(sh[1]) \X Range(sh[2]) -> ScoreValues] } :
            sh \in MatrixShapes }

(* Sb[col][row] of pandas.                                                 *)
At(M, col, row) == M.val[<<row, col>>]

HasCell(M, col, row) == col \in Range(M.columns) /\ row \in Range(M.index)

(* tempSb[col][row] = v                                                    *)
SetAt(M, col, row, v) == [M EXCEPT !.val[<<row, col>>] = v]

----------------------------------------------------------------------------
(* Floating-point values are integers, with np.inf and NaN as two reserved *)
(* values: every comparison with NaN is false.                             *)

Inf == 1000000
NaN == 0 - Inf - 1

FloatLess(x, y) == x # NaN /\ y # NaN /\ x < y

----------------------------------------------------------------------------
(* ScoreMatrixLookup                                                       *)

(* A row or column label of the score table, "(lo,hi]": the bracket        *)
(* characters and the comma-separated numbers between them.                *)
RangeLabel(lo, hi) == [open |-> "(", tokens |-> <<lo, hi>>, close |-> "]"]

(* python's seq[1:-1]                                                      *)
Slice1ToLast(seq) == IF Len(seq) < 2 THEN <<>> ELSE SubSeq(seq, 2, Len(seq) - 1)

(* The loop of process_range_values: the first number of every label.      *)
RECURSIVE FirstTokens(_, _)
FirstTokens(range_list, k) ==
    IF k > Len(range_list) THEN <<>>
    ELSE LET val_array == range_list[k].tokens     \* row[1:-1].split(',')
         IN <<val_array[1]>> \o FirstTokens(range_list, k + 1)

(* The boundaries kept without the final slice.                            *)
process_range_values_unsliced(range_list) ==
    Append(FirstTokens(range_list, 1), Inf)

process_range_values(range_list) ==
    Slice1ToLast(Append(FirstTokens(range_list, 1), Inf))

(* ScoreMatrixLookup.__init__                                              *)
ScoreMatrixLookup(mat, d_range, udotv_range) ==
    [mat |-> mat,
     d_range |-> process_range_values(d_range),
     udotv_range |-> process_range_values(udotv_range)]

(* bisect.bisect (bisect_right) on a[lo:hi], 0-based as in python.         *)
RECURSIVE BisectLoop(_, _, _, _)
BisectLoop(a, x, lo, hi) ==
    IF lo < hi
    THEN LET mid == (lo + hi) \div 2
         IN IF FloatLess(x, a[mid + 1]) THEN BisectLoop(a, x, lo, mid)
                                        ELSE BisectLoop(a, x, mid + 1, hi)
    ELSE lo

bisect(a, x) == BisectLoop(a, x, 0, Len(a))

(* self.mat[i, j] raises IndexError outside the matrix.                    *)
InMatrix(mat, i, j) == i \in 0 .. Len(mat) - 1 /\ j \in 0 .. Len(mat[1]) - 1

(* ScoreMatrixLookup.score; "IndexError" when the read is out of bounds.   *)
ScoreIndices(lk, d, udotv) == <<bisect(lk.d_range, d), bisect(lk.udotv_range, udotv)>>

ScoreRaises(lk, d, udotv) ==
    ~InMatrix(lk.mat, ScoreIndices(lk, d, udotv)[1], ScoreIndices(lk, d, udotv)[2])

score(lk, d, udotv) ==
    lk.mat[ScoreIndices(lk, d, udotv)[1] + 1][ScoreIndices(lk, d, udotv)[2] + 1]

----------------------------------------------------------------------------
(* The score tables of the model.                                          *)

MaxBins == 3          \* a table has 1 .. MaxBins bins on each axis
MaxBoundary == 4      \* bin boundaries are drawn from 0 .. MaxBoundary

(* Entry (i, j) of the tables, 1-based: it falls with the distance bin and *)
(* rises with the alignment bin, and no two entries are equal.             *)
TableEntry(i, j) == 3 * j - (MaxBins + 1) * (i - 1) - 2

TableMatrix(n, m) == [i \in 1 .. n |-> [j \in 1 .. m |-> TableEntry(i, j)]]

(* The strictly increasing boundary lists of n bins.                       *)
BoundaryLists(n) ==
    {b \in [1 .. n -> 0 .. MaxBoundary] : \A i, j \in 1 .. n : i < j => b[i] < b[j]}

(* The labels of bins with lower boundaries b; the last bin is open above. *)
LabelsOf(b) ==
    [k \in 1 .. Len(b) |-> RangeLabel(b[k], IF k < Len(b) THEN b[k + 1] ELSE Inf)]

LabelLists == UNION {{LabelsOf(b) : b \in BoundaryLists(n)} : n \in 1 .. MaxBins}

(* The values score is called with: below, between and above the          *)
(* boundaries, infinite and NaN.                                           *)
QueryValues == (0 - 1 .. MaxBoundary + 1) \cup {Inf, NaN}

Build ==
    /\ score_labels \in LabelLists \X LabelLists
    /\ score_lookup = ScoreMatrixLookup(TableMatrix(Len(score_labels[1]), Len(score_labels[2])),
                                        score_labels[1], score_labels[2])
    /\ score_args = <<0, 0>>
    /\ score_inds = <<0, 0>>
    /\ score_out = 0
    /\ score_pc = "built"

LookupIdle ==
    /\ score_labels = <<<<>>, <<>>>>
    /\ score_lookup = [mat |-> <<>>, d_range |-> <<>>, udotv_range |-> <<>>]
    /\ score_args = <<0, 0>>
    /\ score_inds = <<0, 0>>
    /\ score_out = 0
    /\ score_pc = "idle"

(* One call score_lookup.score(d, udotv).                                  *)
Score ==
    /\ score_pc = "built"
    /\ \E d \in QueryValues, udotv \in QueryValues :
          /\ score_args' = <<d, udotv>>
          /\ score_inds' = ScoreIndices(score_lookup, d, udotv)
          /\ IF ScoreRaises(score_lookup, d, udotv)
             THEN score_pc' = "IndexError" /\ score_out' = 0
             ELSE score_pc' = "scored" /\ score_out' = score(score_lookup, d, udotv)
    /\ UNCHANGED <<score_lookup, score_labels>>

----------------------------------------------------------------------------
(* similarity_matrix_to_adjacency                                          *)

(* A graph of networkx: its nodes, their "bipartite" attribute, and the    *)
(* weight of every edge; an edge is the set of its end points, so that a   *)
(* self-loop is a singleton.                                               *)
EmptyGraph == [nodes |-> {}, bipartite |-> <<>>, weight |-> <<>>]

(* B.add_nodes_from(nodes, bipartite = side): new nodes are added, nodes   *)
(* that exist have the attribute overwritten.                              *)
add_nodes_from(G, nodes, side) ==
    [G EXCEPT !.nodes = G.nodes \cup nodes,
              !.bipartite = [n \in G.nodes \cup nodes |->
                               IF n \in nodes THEN side ELSE G.bipartite[n]]]

(* B.add_edge(u, v, weight = w): the graph is undirected, an edge that     *)
(* exists has its weight overwritten.                                      *)
add_edge(G, u, v, w) ==
    [G EXCEPT !.weight = [e \in DOMAIN G.weight \cup {{u, v}} |->
                            IF e = {u, v} THEN w ELSE G.weight[e]]]

(* The double loop over nodes_from and nodes_to, from its k-th iteration.  *)
RECURSIVE AddEdgesFrom(_, _, _, _)
AddEdgesFrom(G, M, minsim, k) ==
    LET nt == Len(M.columns) IN
    IF k > Len(M.index) * nt THEN G
    ELSE LET node1 == M.index[((k - 1) \div nt) + 1]
             node2 == M.columns[((k - 1) % nt) + 1]
             w == At(M, node2, node1)      \* Sb_edgelist[node1][node2]
         IN AddEdgesFrom(IF w > minsim THEN add_edge(G, node1, node2, w) ELSE G,
                         M, minsim, k + 1)

(* No node counted as isolated.                                            *)
isolates_none(G) == {}

(* nx.isolates: the nodes of degree 0 (a self-loop gives its node a degree).*)
isolates(G) == {n \in G.nodes : \A e \in DOMAIN G.weight : n \notin e}

remove_nodes_from(G, ns) ==
    [G EXCEPT !.nodes = G.nodes \ ns,
              !.bipartite = [n \in G.nodes \ ns |-> G.bipartite[n]]]

similarity_matrix_to_adjacency(M, minsim) ==
    LET B0 == add_nodes_from(EmptyGraph, Range(M.index), 0)
        B1 == add_nodes_from(B0, Range(M.columns), 1)
        B2 == AddEdgesFrom(B1, M, minsim, 1)
    IN remove_nodes_from(B2, isolates(B2))

----------------------------------------------------------------------------
(* networkx.algorithms.matching.max_weight_matching (library): a set of    *)
(* edges no two of which share a node, of maximum total weight; self-loops *)
(* are ignored. Which of several maximum matchings is returned, and which  *)
(* end of an edge comes first in its tuple, is not specified.              *)

RECURSIVE SumWeights(_, _)
SumWeights(G, es) ==
    IF es = {} THEN 0
    ELSE LET e == CHOOSE x \in es : TRUE
         IN G.weight[e] + SumWeights(G, es \ {e})

IsMatching(es) == \A e1 \in es, e2 \in es : e1 # e2 => e1 \cap e2 = {}

ProperEdges(G) == {e \in DOMAIN G.weight : Cardinality(e) = 2}

MatchingsOf(G) == {es \in SUBSET ProperEdges(G) : IsMatching(es)}

(* A matcher that keeps every edge, whether or not two of them share a     *)
(* node.                                                                   *)
max_weight_matching_every_edge(G) == {ProperEdges(G)}

max_weight_matching(G) ==
    {es \in MatchingsOf(G) :
        \A other \in MatchingsOf(G) : SumWeights(G, other) <= SumWeights(G, es)}

(* The tuples an edge set can be returned as.                              *)
RECURSIVE TuplesOf(_)
TuplesOf(es) ==
    IF es = {} THEN {{}}
    ELSE LET e == CHOOSE x \in es : TRUE
             u == CHOOSE x \in e : TRUE
             v == CHOOSE x \in e : x # u
         IN UNION { {rest \cup {<<u, v>>}, rest \cup {<<v, u>>}} :
                    rest \in TuplesOf(es \ {e}) }

----------------------------------------------------------------------------
(* max_match_similarity                                                    *)

(* The loop over enforce_match: tempSb[force_match[1]][force_match[0]] =   *)
(* enforce_match_val, from the k-th forced pair on.                        *)
RECURSIVE ForceFrom(_, _, _, _)
ForceFrom(M, forced, val, k) ==
    IF k > Len(forced) THEN M
    ELSE ForceFrom(SetAt(M, forced[k][2], forced[k][1], val), forced, val, k + 1)

(* One pass of the loop over the matching: the row appended for `match`,   *)
(* with the score read from the caller's matrix Sb.                        *)
MatchRow(M, Qset, match) ==
    IF match[1] \in Qset
    THEN [Query_name |-> match[1], Target_name |-> match[2],
          S |-> At(M, match[2], match[1]),
          Query_id |-> name_number_to_id(match[1]),
          Target_id |-> name_number_to_id(match[2])]
    ELSE [Query_name |-> match[2], Target_name |-> match[1],
          S |-> At(M, match[1], match[2]),
          Query_id |-> name_number_to_id(match[2]),
          Target_id |-> name_number_to_id(match[1])]

(* Sb[col][row] raises KeyError when the matrix has no such cell.          *)
RowReadable(M, Qset, match) ==
    IF match[1] \in Qset THEN HasCell(M, match[2], match[1])
                         ELSE HasCell(M, match[1], match[2])

(* sort_values(by = 'S', ascending = False).reset_index(drop = True): the  *)
(* rows in non-increasing order of S; rows of equal S keep the order in    *)
(* which the set of matches was iterated, which is not specified.          *)
SortedFrames_unsorted(rows) ==
    {df \in [1 .. Cardinality(rows) -> rows] :
        \A i, j \in DOMAIN df : i # j => df[i] # df[j]}

SortedFrames(rows) ==
    {df \in [1 .. Cardinality(rows) -> rows] :
        /\ \A i, j \in DOMAIN df : i # j => df[i] # df[j]
        /\ \A i, j \in DOMAIN df : i < j => df[i].S >= df[j].S}

(* tempSb = Sb: a second name of the caller's object.                      *)
deepcopy_reference(obj) == [same_object |-> TRUE, val |-> obj]

(* copy.deepcopy(Sb): an object of its own with the same content.          *)
deepcopy(obj) == [same_object |-> FALSE, val |-> obj]

MaxMatchSimilarity ==
    /\ match_pc = "input"
    /\ LET copied == deepcopy(Sb)
           tempSb == ForceFrom(copied.val, enforce_match, enforce_match_val, 1)
           \* the caller's matrix once the forced cells are written to tempSb
           Sb_after == IF copied.same_object THEN tempSb ELSE Sb
           G == similarity_matrix_to_adjacency(tempSb, min_similarity)
           Qset == {n \in G.nodes : G.bipartite[n] = 0}
       IN /\ Sb' = Sb_after
          /\ B' = G
          /\ \E es \in max_weight_matching(G) : \E tm \in TuplesOf(es) :
                /\ matching' = tm
                /\ IF \E m \in tm : ~RowReadable(Sb_after, Qset, m)
                   THEN /\ match_pc' = "KeyError"
                        /\ match_df' = <<>>
                   ELSE /\ match_pc' = "returned"
                        /\ match_df' \in
                              SortedFrames({MatchRow(Sb_after, Qset, m) : m \in tm})
    /\ UNCHANGED <<min_similarity, enforce_match, enforce_match_val>>

(* The forced-match lists of a call: pairs of a row and a column label of  *)
(* the matrix, no query and no target forced twice.                        *)
ForcedLists(M) ==
    {f \in UNION {[1 .. n -> Range(M.index) \X Range(M.columns)] : n \in 0 .. MaxForced} :
        \A i, j \in DOMAIN f : i # j => f[i][1] # f[j][1] /\ f[i][2] # f[j][2]}

EnforceMatchVals == {DefaultEnforceMatchVal, 2 * DefaultEnforceMatchVal}

MatchInput ==
    /\ Sb \in Matrices
    /\ min_similarity \in MinSimilarities
    /\ enforce_match \in ForcedLists(Sb)
    /\ enforce_match_val \in
          (IF enforce_match = <<>> THEN {DefaultEnforceMatchVal} ELSE EnforceMatchVals)
    /\ B = EmptyGraph
    /\ matching = {}
    /\ match_df = <<>>
    /\ match_pc = "input"

(* The matcher not in use.                                                 *)
MatchIdle ==
    /\ Sb = [index |-> <<>>, columns |-> <<>>, val |-> <<>>]
    /\ min_similarity = DefaultMinSimilarity
    /\ enforce_match = <<>>
    /\ enforce_match_val = DefaultEnforceMatchVal
    /\ B = EmptyGraph
    /\ matching = {}
    /\ match_df = <<>>
    /\ match_pc = "idle"

----------------------------------------------------------------------------
(* Dotprops. Neurons lie on a line: a node has one coordinate, in whole    *)
(* units, and a resampled point has one coordinate in units of             *)
(* 1 / SubUnits, so that every interpolated position is exact. An          *)
(* orientation is a vector of length 10, so that a dot product is an       *)
(* alignment in hundredths.                                                *)

MaxNodes == 4         \* a path has 1 .. MaxNodes nodes, one unit apart

RECURSIVE Factorial(_)
Factorial(n) == IF n <= 1 THEN 1 ELSE n * Factorial(n - 1)

SubUnits == Factorial(MaxNodes)

XHat == <<10, 0>>

Dot(u, v) == u[1] * v[1] + u[2] * v[2]

One == Dot(XHat, XHat)           \* the alignment 1.0

Abs(x) == IF x < 0 THEN 0 - x ELSE x

SetMin(S) == CHOOSE x \in S : \A y \in S : x <= y
SetMax(S) == CHOOSE x \in S : \A y \in S : y <= x

(* np.zeros((1,6)) * np.nan: one row, every entry NaN.                     *)
NaNDotprop == << [x |-> NaN, v |-> <<NaN, NaN>>] >>

HasNaN(dp) == \E i \in DOMAIN dp : dp[i].x = NaN

(* A path of a neuron: the positions of its nodes and their Strahler       *)
(* number, which is the same along a path.                                 *)
PathStarts == {0, 1}

PathsOf(starts, order) ==
    { [k \in 1 .. n |-> [x |-> x0 + k - 1, sn |-> order]] :
        x0 \in starts, n \in 1 .. MaxNodes }

(* nrn.minimal_paths() of the neurons of the model: no path, one path of   *)
(* Strahler number 1, or a trunk of Strahler number 2 and a branch of      *)
(* Strahler number 1.                                                      *)
NeuronPaths ==
    {<<>>} \cup {<<p>> : p \in PathsOf(PathStarts, 1)}
           \cup {<<p, q>> : p \in PathsOf({1}, 2), q \in PathsOf({0}, 1)}

(* interpolate_path: xs are the node positions of a path, the result the   *)
(* resampled positions in units of 1 / SubUnits.                           *)
RECURSIVE CumLenAt(_, _)
CumLenAt(xs, k) == IF k < 2 THEN 0 ELSE Abs(xs[k] - xs[k - 1]) + CumLenAt(xs, k - 1)

CumLen(xs) == [k \in 1 .. Len(xs) |-> CumLenAt(xs, k)]

(* The number of resampled points.                                         *)
ResampleCount(total, resample_distance) ==
    LET ipart == total \div resample_distance          \* parts[1]
        twicefrac == 2 * (total % resample_distance)   \* 2 * parts[0] * resample_distance
    IN IF ipart < 1 THEN 1
       ELSE IF twicefrac < resample_distance /\ ipart > 0 THEN ipart
       ELSE ipart + 1

(* np.linspace(0, total, nni), in units of 1 / SubUnits.                   *)
Linspace(total, nni) ==
    [k \in 1 .. nni |-> IF nni = 1 THEN 0 ELSE ((k - 1) * total * SubUnits) \div (nni - 1)]

(* np.interp(l, cumlen, xs) for one l, in units of 1 / SubUnits.           *)
Interp(l, cumlen, xs) ==
    IF Len(xs) = 1 \/ l <= cumlen[1] * SubUnits THEN xs[1] * SubUnits
    ELSE IF l >= cumlen[Len(xs)] * SubUnits THEN xs[Len(xs)] * SubUnits
    ELSE LET j == CHOOSE i \in 1 .. Len(xs) - 1 :
                      cumlen[i] * SubUnits <= l /\ l < cumlen[i + 1] * SubUnits
         IN xs[j] * SubUnits
              + ((l - cumlen[j] * SubUnits) * (xs[j + 1] - xs[j])) \div (cumlen[j + 1] - cumlen[j])

interpolate_path(xs, resample_distance) ==
    LET cumlen == CumLen(xs)
        total == cumlen[Len(xs)]
        li == Linspace(total, ResampleCount(total, resample_distance))
    IN [k \in DOMAIN li |-> Interp(li[k], cumlen, xs)]

(* dotprop_path: the resampled points with their orientation, the first    *)
(* right singular vector of the centred neighbours. The points lie on a    *)
(* line, so that it is the unit vector of the line, of a sign the SVD      *)
(* routine chooses (svd_sign), when there are two neighbours or more, and  *)
(* the first basis vector when the only neighbour is the point itself.     *)
dotprop_path(xs, resample_distance, num_nn, svd_sign) ==
    LET xyzi == interpolate_path(xs, resample_distance)
        query_nn == IF num_nn + 1 < Len(xyzi) THEN num_nn + 1 ELSE Len(xyzi)
    IN [k \in DOMAIN xyzi |->
          [x |-> xyzi[k],
           v |-> IF query_nn >= 2 THEN <<svd_sign * XHat[1], svd_sign * XHat[2]>> ELSE XHat]]

(* The list comprehension [nid for nid in pth if sn[nid] >= min_strahler]  *)
KeepStrahler(pth, min_strahler) == SelectSeq(pth, LAMBDA node : node.sn >= min_strahler)

RECURSIVE VStackFrom(_, _, _, _, _)
VStackFrom(pths, k, resample_distance, num_nn, svd_sign) ==
    IF k > Len(pths) THEN <<>>
    ELSE (IF Len(pths[k]) > 0
          THEN dotprop_path([i \in DOMAIN pths[k] |-> pths[k][i].x],
                            resample_distance, num_nn, svd_sign)
          ELSE <<>>)
         \o VStackFrom(pths, k + 1, resample_distance, num_nn, svd_sign)

None == NaN - 1       \* python's None, for an optional number

(* sn.values() of a neuron with paths pths.                                 *)
StrahlerValues(pths) == UNION {{pths[i][j].sn : j \in DOMAIN pths[i]} : i \in DOMAIN pths}

(* neuron_to_dotprop; has_min says whether min_strahler is given. The      *)
(* result is the dotprop, or "ValueError" when np.max is taken of no       *)
(* value.                                                                  *)
neuron_to_dotprop(pths, resample_distance, num_nn, min_strahler, svd_sign) ==
    IF min_strahler # None /\ StrahlerValues(pths) = {}
    THEN [raised |-> "ValueError", dp |-> <<>>]
    ELSE IF min_strahler # None /\ min_strahler > SetMax(StrahlerValues(pths))
    THEN [raised |-> "", dp |-> NaNDotprop]
    ELSE LET cut == IF min_strahler = None THEN None
                    ELSE IF min_strahler > 0 THEN min_strahler
                    ELSE SetMax(StrahlerValues(pths)) + min_strahler
             kept == [i \in DOMAIN pths |->
                        IF cut = None THEN pths[i] ELSE KeepStrahler(pths[i], cut)]
             dp == VStackFrom(kept, 1, resample_distance, num_nn, svd_sign)
         IN [raised |-> "", dp |-> IF Len(dp) > 0 THEN dp ELSE NaNDotprop]

----------------------------------------------------------------------------
(* neuron_comparison_nblast_components on two dotprops                     *)

(* The nearest point of target_dp to position x: its distance, and the     *)
(* indices KDTree.query may return for it.                                 *)
NearestDistance(target_dp, x) == SetMin({Abs(target_dp[j].x - x) : j \in DOMAIN target_dp})

NearestIndices(target_dp, x) ==
    {j \in DOMAIN target_dp : Abs(target_dp[j].x - x) = NearestDistance(target_dp, x)}

(* A default that closes the gate only for a pair that touches.            *)
DefaultProximity_zero(max_proximity) == IF max_proximity = None THEN 0 ELSE max_proximity

(* if max_proximity is None: max_proximity = np.inf                        *)
DefaultProximity(max_proximity) == IF max_proximity = None THEN Inf ELSE max_proximity

(* A gate that is decided for every point by its own distance.             *)
ComparisonComponents_per_point(source_dp, target_dp, max_proximity) ==
    LET maxprox == DefaultProximity(max_proximity)
        n == Len(source_dp)
        d == [i \in 1 .. n |-> NearestDistance(target_dp, source_dp[i].x)]
    IN { [raised |-> "",
          rows |-> [i \in 1 .. n |->
                      <<d[i], IF FloatLess(maxprox, d[i])
                              THEN Dot(source_dp[i].v, target_dp[ix[i]].v) ELSE One>>]] :
         ix \in {f \in [1 .. n -> DOMAIN target_dp] :
                   \A i \in 1 .. n : f[i] \in NearestIndices(target_dp, source_dp[i].x)} }

(* The outcomes of the comparison: the rows (d, udotv), one per source     *)
(* point, or an exception. A NaN coordinate makes the KDTree of some scipy *)
(* versions raise ValueError and that of others report the distance inf    *)
(* and an index past the end of the target.                                *)
ComparisonComponents(source_dp, target_dp, max_proximity) ==
    LET maxprox == DefaultProximity(max_proximity)
        n == Len(source_dp)
    IN IF HasNaN(source_dp) \/ HasNaN(target_dp)
       THEN { [raised |-> "ValueError", rows |-> <<>>],
              IF FloatLess(maxprox, Inf)
              THEN [raised |-> "IndexError", rows |-> <<>>]
              ELSE [raised |-> "", rows |-> [i \in 1 .. n |-> <<Inf, One>>]] }
       ELSE LET d == [i \in 1 .. n |-> NearestDistance(target_dp, source_dp[i].x)]
            IN IF FloatLess(maxprox, SetMin({d[i] : i \in 1 .. n}))
               THEN { [raised |-> "",
                       rows |-> [i \in 1 .. n |->
                                   <<d[i], Dot(source_dp[i].v, target_dp[ix[i]].v)>>]] :
                      ix \in {f \in [1 .. n -> DOMAIN target_dp] :
                                \A i \in 1 .. n :
                                    f[i] \in NearestIndices(target_dp, source_dp[i].x)} }
               ELSE { [raised |-> "", rows |-> [i \in 1 .. n |-> <<d[i], One>>]] }

----------------------------------------------------------------------------
(* Scores. A score is the number num / den in lowest terms, or its square  *)
(* root when rad is TRUE: equal scores have equal representations.         *)

RECURSIVE Gcd(_, _)
Gcd(a, b) == IF b = 0 THEN a ELSE Gcd(b, a % b)

Ratio(n, d) ==
    LET g == Gcd(Abs(n), Abs(d))
        sgn == IF d < 0 THEN 0 - 1 ELSE 1
    IN [num |-> (sgn * n) \div g, den |-> (sgn * d) \div g, rad |-> FALSE]

Whole(n) == Ratio(n, 1)

RatioDiv(a, b) == Ratio(a.num * b.den, a.den * b.num)
RatioMul(a, b) == Ratio(a.num * b.num, a.den * b.den)
RatioMax0(a) == IF a.num < 0 THEN Whole(0) ELSE a        \* max(a, 0)

IsSquare(n) == \E r \in 0 .. n : r * r = n
IntRoot(n) == CHOOSE r \in 0 .. n : r * r = n

(* np.sqrt of a score that is not negative.                                *)
RatioSqrt(a) ==
    IF IsSquare(a.num) /\ IsSquare(a.den)
    THEN [num |-> IntRoot(a.num), den |-> IntRoot(a.den), rad |-> FALSE]
    ELSE [a EXCEPT !.rad = TRUE]

(* nblast_dist_fun: the sum of the table's score over the rows.            *)
RECURSIVE SumScores(_, _, _)
SumScores(lk, rows, k) ==
    IF k > Len(rows) THEN 0
    ELSE score(lk, rows[k][1], rows[k][2]) + SumScores(lk, rows, k + 1)

DistFunRaises(lk, rows) == \E k \in DOMAIN rows : ScoreRaises(lk, rows[k][1], rows[k][2])

nblast_dist_fun(lk, rows) == SumScores(lk, rows, 1)

(* max_blast_score: L rows of distance 0 and alignment 1.                  *)
max_blast_score(L, lk) == nblast_dist_fun(lk, [i \in 1 .. L |-> <<0, One>>])

----------------------------------------------------------------------------
(* The pair scores                                                         *)

Returned(S) == [status |-> "returned", S |-> S]
Raised(what) == [status |-> what, S |-> Whole(0)]
Pending == [status |-> "pending", S |-> Whole(0)]

SvdSigns == {1, 0 - 1}

(* The outcomes of nblast_neuron_pair on two neurons.                      *)
nblast_neuron_pair(q, t, lk, resample_distance, num_nn, bidirectional, normalize) ==
    UNION {
      LET source_dp == neuron_to_dotprop(q, resample_distance, num_nn, None, sq).dp
          target_dp == neuron_to_dotprop(t, resample_distance, num_nn, None, st).dp
      IN { IF c.raised # "" THEN Raised(c.raised)
           ELSE IF DistFunRaises(lk, c.rows) THEN Raised("IndexError")
           ELSE LET d_and_udotv == c.rows
                    S_a == nblast_dist_fun(lk, d_and_udotv)
                    full == max_blast_score(Len(d_and_udotv), lk)
                IN IF bidirectional
                   THEN LET S_b == nblast_dist_fun(lk, d_and_udotv)
                            Sa1 == RatioMax0(Ratio(S_a, full))
                            Sb1 == RatioMax0(Ratio(S_b, full))
                        IN Returned(RatioSqrt(RatioMul(Sa1, Sb1)))
                   ELSE IF normalize THEN Returned(Ratio(S_a, full))
                   ELSE Returned(Whole(S_a))
           : c \in ComparisonComponents(source_dp, target_dp, None) }
      : sq \in SvdSigns, st \in SvdSigns }

(* The guard of _nblast_neuron_pair_for_mp with "or" for "and".            *)
BothUsable_either(q_dotprop, t_dotprop) == Len(q_dotprop) > 1 \/ Len(t_dotprop) > 1

(* len( nrn_q_dotprop ) > 1 and len(nrn_t_dotprop) > 1                     *)
BothUsable(q_dotprop, t_dotprop) == Len(q_dotprop) > 1 /\ Len(t_dotprop) > 1

(* The outcomes of _nblast_neuron_pair_for_mp on two dotprops.             *)
nblast_neuron_pair_for_mp(q_dotprop, t_dotprop, lk, normalize, max_proximity) ==
    IF BothUsable(q_dotprop, t_dotprop)
    THEN { IF c.raised # "" THEN Raised(c.raised)
           ELSE IF DistFunRaises(lk, c.rows) THEN Raised("IndexError")
           ELSE LET S == nblast_dist_fun(lk, c.rows)
                IN IF normalize THEN Returned(Ratio(S, max_blast_score(Len(c.rows), lk)))
                   ELSE Returned(Whole(S))
           : c \in ComparisonComponents(q_dotprop, t_dotprop, max_proximity) }
    ELSE { Returned(Whole(0)) }

(* The score table of the pair scores: distance bins of one unit, and      *)
(* alignment bins below and above 0.5.                                     *)
PairBins == <<LabelsOf(<<0, SubUnits, 2 * SubUnits>>), LabelsOf(<<0, One \div 2>>)>>

NumNN == 5
ResampleDistances == {1, 2}
MinStrahlers == {None, 0, 2, 3}
MaxProximities == {None, SubUnits}

PairCalls ==
    [fn : {"nblast_neuron_pair"}, bidirectional : BOOLEAN, normalize : BOOLEAN,
     resample_distance : ResampleDistances, min_strahler : {None}, max_proximity : {None}]
    \cup
    [fn : {"_nblast_neuron_pair_for_mp"}, bidirectional : {FALSE}, normalize : BOOLEAN,
     resample_distance : ResampleDistances, min_strahler : MinStrahlers,
     max_proximity : MaxProximities]

PairTable ==
    /\ score_labels = PairBins
    /\ score_lookup = ScoreMatrixLookup(TableMatrix(Len(PairBins[1]), Len(PairBins[2])),
                                        PairBins[1], PairBins[2])
    /\ score_args = <<0, 0>>
    /\ score_inds = <<0, 0>>
    /\ score_out = 0
    /\ score_pc = "idle"

(* Two neurons and a call; for _nblast_neuron_pair_for_mp the dotprops are *)
(* those nblast_neurons makes of the neurons.                              *)
PairInput ==
    /\ nrn_q \in NeuronPaths
    /\ nrn_t \in NeuronPaths
    /\ pair_call \in PairCalls
    /\ IF pair_call.fn = "nblast_neuron_pair"
       THEN dp_q = <<>> /\ dp_t = <<>>
       ELSE \E sq \in SvdSigns, st \in SvdSigns :
               LET cq == neuron_to_dotprop(nrn_q, pair_call.resample_distance, NumNN,
                                           pair_call.min_strahler, sq)
                   ct == neuron_to_dotprop(nrn_t, pair_call.resample_distance, NumNN,
                                           pair_call.min_strahler, st)
               IN cq.raised = "" /\ ct.raised = "" /\ dp_q = cq.dp /\ dp_t = ct.dp
    /\ pair_out = [qt |-> Pending, tq |-> Pending]

PairIdle ==
    /\ nrn_q = <<>> /\ nrn_t = <<>> /\ dp_q = <<>> /\ dp_t = <<>>
    /\ pair_call = [fn |-> "idle"]
    /\ pair_out = [qt |-> Pending, tq |-> Pending]

(* One call nblast_neuron_pair(q, t, ...) or, for dir = "tq", (t, q, ...). *)
NblastNeuronPair(dir) ==
    /\ pair_call.fn = "nblast_neuron_pair"
    /\ pair_out[dir] = Pending
    /\ \E o \in nblast_neuron_pair(IF dir = "qt" THEN nrn_q ELSE nrn_t,
                                   IF dir = "qt" THEN nrn_t ELSE nrn_q,
                                   score_lookup, pair_call.resample_distance, NumNN,
                                   pair_call.bidirectional, pair_call.normalize) :
          pair_out' = [pair_out EXCEPT ![dir] = o]
    /\ UNCHANGED <<nrn_q, nrn_t, dp_q, dp_t, pair_call>>

(* One call _nblast_neuron_pair_for_mp on the dotprops, in either order.   *)
NblastNeuronPairForMp(dir) ==
    /\ pair_call.fn = "_nblast_neuron_pair_for_mp"
    /\ pair_out[dir] = Pending
    /\ \E o \in nblast_neuron_pair_for_mp(IF dir = "qt" THEN dp_q ELSE dp_t,
                                          IF dir = "qt" THEN dp_t ELSE dp_q,
                                          score_lookup, pair_call.normalize,
                                          pair_call.max_proximity) :
          pair_out' = [pair_out EXCEPT ![dir] = o]
    /\ UNCHANGED <<nrn_q, nrn_t, dp_q, dp_t, pair_call>>

----------------------------------------------------------------------------
(* nblast_neurons: every query against every target. The conversions to    *)
(* dotprops and the pair scores are computed by the workers of a Pool;     *)
(* pool.map blocks the caller until every task of the map has a result.    *)

MaxBatch == 2        \* at most this many neurons in a list
MaxProcesses == 2    \* at most this many workers in the Pool

PoolIds == {n.id : n \in Neurons} \ {4}

(* nrn.minimal_paths() of the neurons handed to nblast_neurons: a path, a  *)
(* shorter path away from it, and a neuron without paths.                  *)
PoolPaths(id) ==
    CASE id = 1 -> << [k \in 1 .. MaxNodes |-> [x |-> k - 1, sn |-> 1]] >>
      [] id = 2 -> << [k \in 1 .. MaxNodes - 1 |-> [x |-> MaxNodes + k, sn |-> 1]] >>
      [] OTHER -> << >>

(* Lists of neurons, no neuron twice.                                      *)
NeuronLists ==
    { s \in UNION { [1 .. n -> PoolIds] : n \in 0 .. MaxBatch } :
        \A i \in DOMAIN s, j \in DOMAIN s : s[i] = s[j] => i = j }

(* The sign the SVD of a build gives the orientations of each neuron.      *)
BuildSigns == {[id \in PoolIds |-> s] : s \in SvdSigns}

(* The arguments of a call; svd_sign is the sign the SVD of the build      *)
(* gives the orientation of each neuron. t_given is nrns_t is not None.    *)
PoolCalls ==
    { c \in [nrns_q : NeuronLists, t_given : BOOLEAN, nrns_t : NeuronLists,
             as_dotprop : BOOLEAN, min_strahler : {None, 1}, normalize : BOOLEAN,
             resample_distance : {1}, max_proximity : {None},
             processes : 1 .. MaxProcesses, svd_sign : BuildSigns] :
        /\ ~c.t_given => c.nrns_t = <<>>
        /\ c.as_dotprop => c.min_strahler = None }

PendingResult == [status |-> "pending", val |-> <<>>]

(* What a worker computes for a task of the map.                           *)
RunTask(task) ==
    IF task.fn = "neuron_to_dotprop"
    THEN LET c == neuron_to_dotprop(PoolPaths(task.nrn), pool_call.resample_distance,
                                    NumNN, pool_call.min_strahler,
                                    pool_call.svd_sign[task.nrn])
         IN { [status |-> IF c.raised = "" THEN "returned" ELSE c.raised, val |-> c.dp] }
    ELSE { [status |-> o.status, val |-> o.S] :
             o \in nblast_neuron_pair_for_mp(task.q, task.t, score_lookup,
                                             pool_call.normalize,
                                             pool_call.max_proximity) }

(* The place of a result in the list pool.map returns, were it appended    *)
(* when its worker finishes.                                               *)
ResultSlot_arrival(results, task_index) ==
    CHOOSE k \in DOMAIN results :
        /\ results[k] = PendingResult
        /\ \A j \in DOMAIN results : results[j] = PendingResult => k <= j

(* The place of a result in the list pool.map returns: that of its task.   *)
ResultSlot(results, task_index) == task_index

(* pool.map( f, tasks ): the tasks are queued.                             *)
Submit(tasks) ==
    /\ pool_tasks' = tasks
    /\ pool_results' = [k \in DOMAIN tasks |-> PendingResult]
    /\ pool_next' = 1
    /\ pool_running' = {}
    /\ pool_overtaken' = FALSE

MapDone == \A k \in DOMAIN pool_results : pool_results[k] # PendingResult

MapRaised == \E k \in DOMAIN pool_results : pool_results[k].status # "returned"

(* A worker that has no task takes the next task of the queue.             *)
WorkerTake ==
    /\ pool_pc \in {"map_q", "map_t", "map_pairs"}
    /\ Cardinality(pool_running) < pool_call.processes
    /\ pool_next <= Len(pool_tasks)
    /\ pool_running' = pool_running \cup {pool_next}
    /\ pool_next' = pool_next + 1
    /\ UNCHANGED <<pool_call, pool_pc, pool_loop, pool_q_dotprop, pool_t_dotprop,
                   pool_tasks, pool_results, pool_overtaken, pool_df>>

(* The worker computing a task finishes it and hands the result back.      *)
WorkerFinish(task_index) ==
    /\ task_index \in pool_running
    /\ \E r \in RunTask(pool_tasks[task_index]) :
          pool_results' = [pool_results EXCEPT
                             ![ResultSlot(pool_results, task_index)] = r]
    /\ pool_running' = pool_running \ {task_index}
    /\ pool_overtaken' = (pool_overtaken \/ \E earlier \in pool_running : earlier < task_index)
    /\ UNCHANGED <<pool_call, pool_pc, pool_loop, pool_q_dotprop, pool_t_dotprop,
                   pool_tasks, pool_next, pool_df>>

ConversionTasks(nrns) == [k \in DOMAIN nrns |-> [fn |-> "neuron_to_dotprop", nrn |-> nrns[k]]]

(* {nrn.id: dotprop_list[ii] for ii, nrn in enumerate(nrns)}               *)
DotpropDict(nrns, dotprop_list) ==
    [id \in Range(nrns) |-> dotprop_list[CHOOSE ii \in DOMAIN nrns : nrns[ii] = id].val]

(* nrns_t after "if nrns_t is None: nrns_t = nrns_q".                      *)
TargetsOf(call) == IF call.t_given THEN call.nrns_t ELSE call.nrns_q

(* q_name and t_name: the key of the dictionary of dotprops, or the label. *)
PoolName(call, id) == IF call.as_dotprop THEN id ELSE name_number(NeuronById(id))

(* The query and the target at place k of queries, targets and args.       *)
QueryOfPair(call, k) == call.nrns_q[((k - 1) \div Len(TargetsOf(call))) + 1]

TargetOfPair(call, k) == TargetsOf(call)[((k - 1) % Len(TargetsOf(call))) + 1]

(* The loops that fill queries, targets and args, and the last pool.map.   *)
SubmitPairs(q_dotprop, t_dotprop) ==
    /\ Submit([k \in 1 .. Len(pool_call.nrns_q) * Len(TargetsOf(pool_call)) |->
                 [fn |-> "_nblast_neuron_pair_for_mp",
                  q |-> q_dotprop[QueryOfPair(pool_call, k)],
                  t |-> t_dotprop[TargetOfPair(pool_call, k)]]])
    /\ pool_pc' = "map_pairs"

(* The dotprop the build makes of a neuron.                                *)
DotpropOf(call, id) ==
    neuron_to_dotprop(PoolPaths(id), call.resample_distance, NumNN, call.min_strahler,
                      call.svd_sign[id]).dp

(* A call of nblast_neurons; with as_dotprop the lists are dictionaries of *)
(* dotprops the caller made.                                               *)
PoolInput ==
    /\ pool_call \in PoolCalls
    /\ pool_pc = "start"
    /\ pool_loop = 0
    /\ pool_q_dotprop = IF pool_call.as_dotprop
                        THEN [id \in Range(pool_call.nrns_q) |-> DotpropOf(pool_call, id)]
                        ELSE <<>>
    /\ pool_t_dotprop = IF pool_call.as_dotprop /\ pool_call.t_given
                        THEN [id \in Range(pool_call.nrns_t) |-> DotpropOf(pool_call, id)]
                        ELSE <<>>
    /\ pool_tasks = <<>>
    /\ pool_next = 1
    /\ pool_running = {}
    /\ pool_results = <<>>
    /\ pool_overtaken = FALSE
    /\ pool_df = <<>>

PoolIdle ==
    /\ pool_call = [fn |-> "idle"]
    /\ pool_pc = "idle"
    /\ pool_loop = 0
    /\ pool_q_dotprop = <<>>
    /\ pool_t_dotprop = <<>>
    /\ pool_tasks = <<>>
    /\ pool_next = 1
    /\ pool_running = {}
    /\ pool_results = <<>>
    /\ pool_overtaken = FALSE
    /\ pool_df = <<>>

(* nblast_neurons up to its first pool.map.                                *)
NblastNeuronsStart ==
    /\ pool_pc = "start"
    /\ IF pool_call.as_dotprop
       THEN LET t_dotprop == IF pool_call.t_given THEN pool_t_dotprop ELSE pool_q_dotprop
            IN /\ pool_t_dotprop' = t_dotprop
               /\ SubmitPairs(pool_q_dotprop, t_dotprop)
       ELSE /\ Submit(ConversionTasks(pool_call.nrns_q))
            /\ pool_pc' = "map_q"
            /\ UNCHANGED pool_t_dotprop
    /\ UNCHANGED <<pool_call, pool_loop, pool_q_dotprop, pool_df>>

(* From the return of the map over nrns_q to the next pool.map.            *)
NblastNeuronsAfterQueries ==
    /\ pool_pc = "map_q"
    /\ MapDone
    /\ IF MapRaised
       THEN /\ pool_pc' = "raised"
            /\ UNCHANGED <<pool_loop, pool_q_dotprop, pool_t_dotprop, pool_tasks,
                           pool_next, pool_running, pool_results, pool_overtaken>>
       ELSE LET q_dotprop == DotpropDict(pool_call.nrns_q, pool_results)
            IN /\ pool_q_dotprop' = q_dotprop
               /\ IF ~pool_call.t_given
                  THEN /\ pool_t_dotprop' = q_dotprop
                       /\ SubmitPairs(q_dotprop, q_dotprop)
                       /\ UNCHANGED pool_loop
                  ELSE IF Len(pool_call.nrns_t) = 0
                  THEN /\ pool_t_dotprop' = <<>>
                       /\ SubmitPairs(q_dotprop, <<>>)
                       /\ UNCHANGED pool_loop
                  ELSE /\ Submit(ConversionTasks(pool_call.nrns_t))
                       /\ pool_pc' = "map_t"
                       /\ pool_loop' = 1
                       /\ UNCHANGED pool_t_dotprop
    /\ UNCHANGED <<pool_call, pool_df>>

(* From the return of a map over nrns_t, one for every neuron of nrns_t,   *)
(* to the next pool.map.                                                   *)
NblastNeuronsAfterTargets ==
    /\ pool_pc = "map_t"
    /\ MapDone
    /\ IF MapRaised
       THEN /\ pool_pc' = "raised"
            /\ UNCHANGED <<pool_loop, pool_t_dotprop, pool_tasks, pool_next,
                           pool_running, pool_results, pool_overtaken>>
       ELSE LET t_dotprop == DotpropDict(pool_call.nrns_t, pool_results)
            IN /\ pool_t_dotprop' = t_dotprop
               /\ IF pool_loop < Len(pool_call.nrns_t)
                  THEN /\ Submit(ConversionTasks(pool_call.nrns_t))
                       /\ pool_loop' = pool_loop + 1
                       /\ UNCHANGED pool_pc
                  ELSE /\ SubmitPairs(pool_q_dotprop, t_dotprop)
                       /\ UNCHANGED pool_loop
    /\ UNCHANGED <<pool_call, pool_q_dotprop, pool_df>>

(* From the return of the map over args to the return of the data frame.   *)
NblastNeuronsAfterPairs ==
    /\ pool_pc = "map_pairs"
    /\ MapDone
    /\ IF MapRaised
       THEN pool_pc' = "raised" /\ UNCHANGED pool_df
       ELSE /\ pool_pc' = "done"
            /\ pool_df' = [k \in DOMAIN pool_results |->
                             [Queries |-> PoolName(pool_call, QueryOfPair(pool_call, k)),
                              Targets |-> PoolName(pool_call, TargetOfPair(pool_call, k)),
                              S |-> pool_results[k].val]]
    /\ UNCHANGED <<pool_call, pool_loop, pool_q_dotprop, pool_t_dotprop, pool_tasks,
                   pool_next, pool_running, pool_results, pool_overtaken>>

NblastNeurons ==
    \/ NblastNeuronsStart
    \/ NblastNeuronsAfterQueries
    \/ NblastNeuronsAfterTargets
    \/ NblastNeuronsAfterPairs
    \/ WorkerTake
    \/ \E task_index \in pool_running : WorkerFinish(task_index)

----------------------------------------------------------------------------
(* match_likelihood_ratio: the scores of both directions, the soma         *)
(* distances and the connectivity of every pair, merged into one frame.    *)
(* A frame is its columns and its rows, a row a record of the columns.     *)

SameKey(l, r) == l.Queries = r.Queries /\ l.Targets = r.Targets

FrameKeys(df) == {<<df.rows[k].Queries, df.rows[k].Targets>> : k \in DOMAIN df.rows}

(* The rows of right that one row of left is merged with.                  *)
MatchesOf(l, right) == SelectSeq(right.rows, LAMBDA r : SameKey(l, r))

(* The columns of the merged frame: those of left, then the rest of right. *)
MergedColumns(left, right) ==
    left.columns \o SelectSeq(right.columns, LAMBDA c : c \notin Range(left.columns))

RECURSIVE MergeFrom(_, _, _, _)
MergeFrom(left, right, k, keep_unmatched) ==
    IF k > Len(left.rows) THEN <<>>
    ELSE LET l == left.rows[k]
             rs == MatchesOf(l, right)
         IN (IF Len(rs) = 0 /\ keep_unmatched
             THEN << l @@ [c \in Range(right.columns) |-> NaN] >>
             ELSE [j \in DOMAIN rs |-> l @@ rs[j]])
            \o MergeFrom(left, right, k + 1, keep_unmatched)

(* pd.merge with how='left': a row of left without a partner is kept, the  *)
(* columns of right filled with NaN.                                       *)
merge_left(left, right) ==
    [columns |-> MergedColumns(left, right), rows |-> MergeFrom(left, right, 1, TRUE)]

(* pd.merge(left, right, on=['Queries','Targets']), how='inner'.           *)
merge(left, right) ==
    [columns |-> MergedColumns(left, right), rows |-> MergeFrom(left, right, 1, FALSE)]

(* The frame of one row for every pair of the lists, in the order of the   *)
(* nested loops; Value(q, t) gives the other columns of the row.           *)
PairFrame(columns, nrns_q, nrns_t, Value(_, _)) ==
    [columns |-> <<"Queries", "Targets">> \o columns,
     rows |-> [k \in 1 .. Len(nrns_q) * Len(nrns_t) |->
                 LET q == nrns_q[((k - 1) \div Len(nrns_t)) + 1]
                     t == nrns_t[((k - 1) % Len(nrns_t)) + 1]
                 IN [Queries |-> Lab(q), Targets |-> Lab(t)] @@ Value(q, t)]]

(* The frame nblast_neurons(score_lookup, nrns_q, nrns_t, normalize=True)  *)
(* returns.                                                                *)
nblast_neurons(call, lk, nrns_q, nrns_t) ==
    PairFrame(<<"S">>, nrns_q, nrns_t,
              LAMBDA q, t :
                 [S |-> (CHOOSE o \in nblast_neuron_pair_for_mp(
                                          DotpropOf(call, q), DotpropOf(call, t), lk,
                                          TRUE, call.max_proximity) : TRUE).S])

(* soma_distance: the distance of the somata of every pair.                *)
soma_distance(call, nrns_q, nrns_t) ==
    PairFrame(<<"soma_distance">>, nrns_q, nrns_t,
              LAMBDA q, t : [soma_distance |-> Abs(call.soma[q] - call.soma[t])])

(* paired_connectivity_prob: a row for every pair of nrns_q.ids() and      *)
(* nrns_t.ids(), with the summed log ratios of its partner vectors.        *)
paired_connectivity_prob(call, ids_q, ids_t) ==
    PairFrame(<<"pre_prob", "post_prob">>, ids_q, ids_t,
              LAMBDA q, t : [pre_prob |-> call.conn[<<q, t>>].pre,
                             post_prob |-> call.conn[<<q, t>>].post])

(* Sqt.S[Sqt.S<0] = 0                                                      *)
ClampS(df) == [df EXCEPT !.rows = [k \in DOMAIN df.rows |->
                                     [df.rows[k] EXCEPT !.S = RatioMax0(df.rows[k].S)]]]

(* Stq.rename(columns={'Queries':'Targets','Targets':'Queries','S':'Stq'}) *)
RenameStq(df) ==
    [columns |-> <<"Targets", "Queries", "Stq">>,
     rows |-> [k \in DOMAIN df.rows |->
                 [Targets |-> df.rows[k].Queries, Queries |-> df.rows[k].Targets,
                  Stq |-> df.rows[k].S]]]

RenameSqt(df) ==
    [columns |-> <<"Queries", "Targets", "Sqt">>,
     rows |-> [k \in DOMAIN df.rows |->
                 [Queries |-> df.rows[k].Queries, Targets |-> df.rows[k].Targets,
                  Sqt |-> df.rows[k].S]]]

(* Adds a column computed from every row.                                  *)
WithColumn(df, column, Value(_)) ==
    [columns |-> df.columns \o <<column>>,
     rows |-> [k \in DOMAIN df.rows |-> df.rows[k] @@ (column :> Value(df.rows[k]))]]

(* match_prob_morpho_log_ratio: the sum of the logistic log odds of the    *)
(* score and of the gamma log odds of the soma distance, kept as the two   *)
(* arguments the sum is a function of.                                     *)
match_prob_morpho_log_ratio(S, d) == [logistic_ratio |-> S, gamma_ratio |-> d]

(* P_morph_log_ratio + post_prob + pre_prob: the sum, kept as the morpho   *)
(* term and the sum of the two connectivity terms.                         *)
LogP(row) == [morph |-> row.P_morph_log_ratio, conn |-> row.post_prob + row.pre_prob]

(* nrns.ids() of a neuron list: ids of neurons of the list, in its order.  *)
NeuronListIds(nrns) ==
    { SelectSeq(nrns, LAMBDA id : id \in kept) : kept \in SUBSET Range(nrns) }

(* The soma positions and the summed connectivity log ratios the neuron    *)
(* provider and the fitted statistics give the pairs.                      *)
SomaLocations == { [id \in PoolIds |-> 2 * id] }

ConnProbs ==
    { [p \in PoolIds \X PoolIds |-> [pre |-> c * (p[1] + p[2]), post |-> c * (p[1] - p[2])]] :
        c \in {0, 1} }

(* The calls in which nrns_q.ids() is ids_q and nrns_t.ids() is ids_t.     *)
FusionCalls(nrns_q, ids_q, nrns_t, ids_t) ==
    [nrns_q : {nrns_q}, nrns_t : {nrns_t}, ids_q : {ids_q}, ids_t : {ids_t},
     resample_distance : {1}, min_strahler : {None}, max_proximity : {None},
     svd_sign : BuildSigns, soma : SomaLocations, conn : ConnProbs]

EmptyFrame == [columns |-> <<>>, rows |-> <<>>]

FusionInput ==
    /\ \E nrns_q \in NeuronLists, nrns_t \in NeuronLists :
          \E ids_q \in NeuronListIds(nrns_q), ids_t \in NeuronListIds(nrns_t) :
             fusion_call \in FusionCalls(nrns_q, ids_q, nrns_t, ids_t)
    /\ fusion_sources = [Sqt |-> EmptyFrame, Stq |-> EmptyFrame, Ds |-> EmptyFrame,
                         P_con |-> EmptyFrame]
    /\ fusion_Stot = EmptyFrame
    /\ fusion_pc = "input"

FusionIdle ==
    /\ fusion_call = [fn |-> "idle"]
    /\ fusion_sources = <<>>
    /\ fusion_Stot = EmptyFrame
    /\ fusion_pc = "idle"

(* match_likelihood_ratio with min_length = None.                          *)
MatchLikelihoodRatio ==
    /\ fusion_pc = "input"
    /\ LET call == fusion_call
           Ds == soma_distance(call, call.nrns_q, call.nrns_t)
           Sqt == RenameSqt(ClampS(nblast_neurons(call, score_lookup, call.nrns_q, call.nrns_t)))
           Stq == RenameStq(ClampS(nblast_neurons(call, score_lookup, call.nrns_t, call.nrns_q)))
           P_con == paired_connectivity_prob(call, call.ids_q, call.ids_t)
           Sbid == WithColumn(merge(Sqt, Stq), "Sbid",
                              LAMBDA row : RatioSqrt(RatioMul(row.Sqt, row.Stq)))
           joined == merge(merge(Sbid, Ds), P_con)
           morph == WithColumn(joined, "P_morph_log_ratio",
                               LAMBDA row : match_prob_morpho_log_ratio(row.Sbid,
                                                                        row.soma_distance))
       IN /\ fusion_sources' = [Sqt |-> Sqt, Stq |-> Stq, Ds |-> Ds, P_con |-> P_con]
          /\ fusion_Stot' = WithColumn(morph, "logP", LogP)
    /\ fusion_pc' = "returned"
    /\ UNCHANGED fusion_call

----------------------------------------------------------------------------
(* Calls of the functions that work on one pair of numbers at a time.      *)

NotCalled == [status |-> "pending"]

CallIdle == fn_call = [fn |-> "idle"] /\ fn_out = NotCalled

----------------------------------------------------------------------------
(* match_prob_conn_log_ratio: the log ratio of a pair of synaptic weights, *)
(* read from the table conn_stats['log_ratio'].                            *)

MaxWeight == 6        \* weights are 0 .. MaxWeight
MaxTable == 3         \* the table has 1 .. MaxTable rows and columns

(* The table's entry [i, j], 0-based; no two entries are equal.            *)
LogRatioTable(rows, cols) ==
    [i \in 0 .. rows - 1 |-> [j \in 0 .. cols - 1 |-> (MaxTable + 1) * i + j + 1]]

(* np.max(a, axis) of a number a: the reduction of a 0-dimensional array   *)
(* accepts the axes 0 and -1 and gives a; any other axis is out of bounds. *)
np_max(a, axis) ==
    IF axis \in {0, 0 - 1} THEN [raised |-> "", val |-> a]
    ELSE [raised |-> "AxisError", val |-> 0]

(* table[w1, w2] of numpy: a negative index counts from the end.           *)
IndexInBounds(n, i) == 0 - n <= i /\ i < n

WrapIndex(n, i) == IF i < 0 THEN i + n ELSE i

(* The outcome of match_prob_conn_log_ratio(w1, w2, conn_stats): what it   *)
(* returned or raised, whether it shifted the weights, the indices it had  *)
(* when it came to read the table and whether it read it.                  *)
match_prob_conn_log_ratio(w1, w2, log_ratio) ==
    LET rows == Cardinality(DOMAIN log_ratio)           \* np.shape(...)[0]
        cols == Cardinality(DOMAIN log_ratio[0])        \* np.shape(...)[1]
        over == w1 > rows - 1 \/ w2 > cols - 1
        shift1 == w1 - rows - 1
        shift2 == w2 - cols - 1
        shift == np_max(shift1, shift2)
        i1 == IF over THEN w1 - shift.val ELSE w1
        i2 == IF over THEN w2 - shift.val ELSE w2
    IN IF over /\ shift.raised # ""
       THEN [status |-> shift.raised, shifted |-> FALSE, read |-> FALSE,
             w1 |-> w1, w2 |-> w2, value |-> 0]
       ELSE IF i1 > 0 \/ i2 > 0
       THEN IF IndexInBounds(rows, i1) /\ IndexInBounds(cols, i2)
            THEN [status |-> "returned", shifted |-> over, read |-> TRUE,
                  w1 |-> i1, w2 |-> i2,
                  value |-> log_ratio[WrapIndex(rows, i1)][WrapIndex(cols, i2)]]
            ELSE [status |-> "IndexError", shifted |-> over, read |-> TRUE,
                  w1 |-> i1, w2 |-> i2, value |-> 0]
       ELSE [status |-> "returned", shifted |-> over, read |-> FALSE,
             w1 |-> i1, w2 |-> i2, value |-> 0]

ConnCalls ==
    [fn : {"match_prob_conn_log_ratio"}, w1 : 0 .. MaxWeight, w2 : 0 .. MaxWeight,
     rows : 1 .. MaxTable, cols : 1 .. MaxTable]

ConnInput == fn_call \in ConnCalls /\ fn_out = NotCalled

(* One call match_prob_conn_log_ratio(w1, w2, conn_stats).                 *)
MatchProbConnLogRatio ==
    /\ fn_call.fn = "match_prob_conn_log_ratio"
    /\ fn_out = NotCalled
    /\ fn_out' = match_prob_conn_log_ratio(fn_call.w1, fn_call.w2,
                                           LogRatioTable(fn_call.rows, fn_call.cols))
    /\ UNCHANGED fn_call

----------------------------------------------------------------------------
(* match_prob_morpho_log_ratio: the log odds of a match from the NBLAST    *)
(* score and the soma distance of one pair.  The library functions         *)
(* (gamma.pdf, np.exp) are taken by their results; a probability is a      *)
(* fraction <<n, d>> with d > 0 or not a number, and a logarithm is the    *)
(* log2 of a fraction, +inf, -inf or nan.                                  *)

MaxDensity == 2       \* gamma.pdf gives 0 (underflow) .. MaxDensity
CutUnits == 2         \* the cutoff factor is a multiple of 1/CutUnits
MaxExp == 2           \* np.exp gives 0 (underflow) .. MaxExp or inf (overflow)

Fraction(n, d) == LET g == Gcd(Abs(n), Abs(d)) IN [nan |-> FALSE, n |-> n \div g, d |-> d \div g]

NotANumber == [nan |-> TRUE, n |-> 0, d |-> 1]

LogOf(n, d) == LET f == Fraction(n, d) IN [kind |-> "finite", n |-> f.n, d |-> f.d]

LogNaN == [kind |-> "nan", n |-> 1, d |-> 1]
LogInf == [kind |-> "inf", n |-> 1, d |-> 1]
LogNegInf == [kind |-> "-inf", n |-> 1, d |-> 1]

(* np.log2(val) - np.log2(1.0 - val): log2 of a negative number is nan,    *)
(* log2(0) is -inf.                                                        *)
LogOdds(val) ==
    IF val.nan \/ val.n < 0 \/ val.d - val.n < 0 THEN LogNaN
    ELSE IF val.n = 0 THEN LogNegInf
    ELSE IF val.n = val.d THEN LogInf
    ELSE LogOf(val.n, val.d - val.n)

(* a + b of two logarithms.                                                *)
LogSum(a, b) ==
    IF a.kind = "nan" \/ b.kind = "nan" THEN LogNaN
    ELSE IF a.kind = "finite" /\ b.kind = "finite" THEN LogOf(a.n * b.n, a.d * b.d)
    ELSE IF a.kind = "finite" THEN b
    ELSE IF b.kind = "finite" \/ a.kind = b.kind THEN a
    ELSE LogNaN                                        \* inf + -inf

(* _gamma_ratio with num and denom the two densities at the distance and   *)
(* cut/CutUnits the value of 1 - exp_param[0]*exp(-xs/exp_param[1]).       *)
gamma_ratio(num, denom, cut) ==
    LET val == IF num + denom = 0 THEN NotANumber      \* 0/0
               ELSE Fraction(num * cut, (num + denom) * CutUnits)
    IN LogOdds(val)

(* _logistic_ratio with shape_param[0] = shape/CutUnits and e the value of *)
(* np.exp(-shape_param[1]*(x - shape_param[2])).                           *)
logistic_ratio(shape, e) ==
    LET val == IF e = Inf THEN Fraction(0, 1)
               ELSE Fraction(shape, CutUnits * (1 + e))
    IN LogOdds(val)

(* dprob[np.isnan(dprob)] = 1.0                                            *)
ReplaceNaN(dprob) == IF dprob.kind = "nan" THEN LogOf(2, 1) ELSE dprob

MorphoLogRatio(call) ==
    LET Sprob == logistic_ratio(call.shape, call.e)
        raw == gamma_ratio(call.num, call.denom, call.cut)
        dprob == ReplaceNaN(raw)
    IN [status |-> "returned", Sprob |-> Sprob, raw |-> raw, dprob |-> dprob,
        total |-> LogSum(Sprob, dprob)]

MorphoCalls ==
    [fn : {"match_prob_morpho_log_ratio"},
     shape : 1 .. CutUnits, e : (0 .. MaxExp) \cup {Inf},
     num : 0 .. MaxDensity, denom : 0 .. MaxDensity, cut : 0 - 1 .. CutUnits + 1]

MorphoInput == fn_call \in MorphoCalls /\ fn_out = NotCalled

(* One element of match_prob_morpho_log_ratio(S, d, morpho_stats).         *)
MatchProbMorphoLogRatio ==
    /\ fn_call.fn = "match_prob_morpho_log_ratio"
    /\ fn_out = NotCalled
    /\ fn_out' = MorphoLogRatio(fn_call)
    /\ UNCHANGED fn_call

----------------------------------------------------------------------------
(* Calls of interpolate_path on a path of its own: 1 .. MaxNodes nodes on  *)
(* the line, every node one unit before or behind the one before it.       *)

RECURSIVE PositionsFrom(_, _, _)
PositionsFrom(x0, steps, k) ==
    IF k > Len(steps) THEN <<x0>>
    ELSE <<x0>> \o PositionsFrom(x0 + steps[k], steps, k + 1)

PathPositions ==
    {PositionsFrom(x0, steps, 1) :
        x0 \in PathStarts,
        steps \in UNION {[1 .. n -> {1, 0 - 1}] : n \in 0 .. MaxNodes - 1}}

InterpCalls ==
    [fn : {"interpolate_path"}, xs : PathPositions, resample_distance : 1 .. MaxNodes + 1]

InterpInput == fn_call \in InterpCalls /\ fn_out = NotCalled

(* One call interpolate_path(xyz, resample_distance).                      *)
InterpolatePath ==
    /\ fn_call.fn = "interpolate_path"
    /\ fn_out = NotCalled
    /\ fn_out' = [status |-> "returned",
                  xyzi |-> interpolate_path(fn_call.xs, fn_call.resample_distance)]
    /\ UNCHANGED fn_call

----------------------------------------------------------------------------
(* Calls of neuron_comparison_nblast_components with as_dotprop = True, on *)
(* dotprops the caller made: 1 .. MaxCloud points each, the points of the  *)
(* source each with an orientation, those of the target with one in        *)
(* common. A call is run twice: as it is (run "a") and with the            *)
(* orientations of one of the dotprops turned (run "b").                   *)

MaxCloud == 2

YHat == <<0, 10>>

Orientations == {XHat, <<0 - XHat[1], 0 - XHat[2]>>, YHat}

SourceClouds ==
    UNION {[1 .. n -> [x : {0, SubUnits}, v : Orientations]] : n \in 1 .. MaxCloud}

TargetClouds ==
    UNION { {[i \in 1 .. n |-> [x |-> xs[i], v |-> v]] :
               xs \in [1 .. n -> {0, 2 * SubUnits}], v \in Orientations} :
            n \in 1 .. MaxCloud }

(* Every orientation of a dotprop reversed, or turned by a quarter.        *)
Flipped(dp) == [i \in DOMAIN dp |-> [x |-> dp[i].x, v |-> <<0 - dp[i].v[1], 0 - dp[i].v[2]>>]]

Quartered(dp) == [i \in DOMAIN dp |-> [x |-> dp[i].x, v |-> <<0 - dp[i].v[2], dp[i].v[1]>>]]

ComparisonCalls ==
    [fn : {"neuron_comparison_nblast_components"},
     source_dp : SourceClouds, target_dp : TargetClouds,
     max_proximity : {None, 0, SubUnits}, turn : {"flip_source", "quarter_target"}]

RunSource(call, run) ==
    IF run = "b" /\ call.turn = "flip_source" THEN Flipped(call.source_dp) ELSE call.source_dp

RunTarget(call, run) ==
    IF run = "b" /\ call.turn = "quarter_target" THEN Quartered(call.target_dp)
    ELSE call.target_dp

ComparisonInput ==
    /\ fn_call \in ComparisonCalls
    /\ fn_out = [a |-> NotCalled, b |-> NotCalled]

(* One run: d_and_udotv of neuron_comparison_nblast_components and the sum *)
(* S = nblast_dist_fun(d_and_udotv, score_lookup) that                     *)
(* _nblast_neuron_pair_for_mp makes of it.                                 *)
NeuronComparisonNblastComponents(run) ==
    /\ fn_call.fn = "neuron_comparison_nblast_components"
    /\ fn_out[run] = NotCalled
    /\ \E c \in ComparisonComponents(RunSource(fn_call, run), RunTarget(fn_call, run),
                                      fn_call.max_proximity) :
          fn_out' = [fn_out EXCEPT ![run] =
                        IF c.raised # ""
                        THEN [status |-> c.raised, rows |-> <<>>, S |-> 0]
                        ELSE IF DistFunRaises(score_lookup, c.rows)
                        THEN [status |-> "IndexError", rows |-> c.rows, S |-> 0]
                        ELSE [status |-> "returned", rows |-> c.rows,
                              S |-> nblast_dist_fun(score_lookup, c.rows)]]
    /\ UNCHANGED fn_call

----------------------------------------------------------------------------
(* The matcher on its own.                                                 *)

InitMatch == MatchInput /\ LookupIdle /\ PairIdle /\ PoolIdle /\ FusionIdle /\ CallIdle

NextMatch ==
    MaxMatchSimilarity /\ UNCHANGED <<lookup_vars, pair_vars, pool_vars, fusion_vars, call_vars>>

SpecMatch == InitMatch /\ [][NextMatch]_vars

----------------------------------------------------------------------------
(* Properties of max_match_similarity, checked under SpecMatch.            *)

Rows(df) == {df[i] : i \in DOMAIN df}

ForcedPairs == {enforce_match[k] : k \in DOMAIN enforce_match}

(* C1: the returned table never has two rows with the same Query_id, nor   *)
(* two rows with the same Target_id.                                       *)
C1_NoSharedIds ==
    match_pc = "returned" =>
        \A i, j \in DOMAIN match_df :
            i # j => /\ match_df[i].Query_id # match_df[j].Query_id
                     /\ match_df[i].Target_id # match_df[j].Target_id

(* A call that returned two rows, one of them a forced pair.               *)
C1_Witness ==
    /\ match_pc = "returned"
    /\ Len(match_df) = 2
    /\ \E r \in Rows(match_df) : <<r.Query_name, r.Target_name>> \in ForcedPairs

(* C2: with the default enforce_match_val, every forced pair is a row of   *)
(* the result, whatever the scores and whatever min_similarity.            *)
C2_ForcedPairsReturned ==
    (match_pc # "input" /\ enforce_match_val = DefaultEnforceMatchVal) =>
        /\ match_pc = "returned"
        /\ \A f \in ForcedPairs :
              \E r \in Rows(match_df) : r.Query_name = f[1] /\ r.Target_name = f[2]

(* C3: every returned row that is not a forced pair has a score strictly   *)
(* above min_similarity.                                                   *)
C3_UnforcedRowsAboveThreshold ==
    match_pc = "returned" =>
        \A r \in Rows(match_df) :
            <<r.Query_name, r.Target_name>> \notin ForcedPairs => r.S > min_similarity

(* The matrix of a set matched against itself, every diagonal score above  *)
(* the threshold and above every off-diagonal score.                       *)
SelfDominant(M, minsim) ==
    /\ M.index = M.columns
    /\ \A n \in Range(M.index) :
          /\ At(M, n, n) > minsim
          /\ \A q \in Range(M.index), t \in Range(M.columns) :
                q # t => At(M, n, n) > At(M, t, q)

(* C4: a set of n neurons matched against itself with min_similarity 0.4   *)
(* and dominant self-similarity gives n rows, each neuron with itself.     *)
C4_SelfMatchIsIdentity ==
    (/\ match_pc # "input"
     /\ min_similarity = DefaultMinSimilarity
     /\ enforce_match = <<>>
     /\ SelfDominant(Sb, min_similarity)) =>
        /\ match_pc = "returned"
        /\ Len(match_df) = Len(Sb.index)
        /\ \A r \in Rows(match_df) : r.Query_name = r.Target_name

NoScoreAbove(M, minsim) ==
    \A q \in Range(M.index), t \in Range(M.columns) : ~(At(M, t, q) > minsim)

(* C14: when no score of the matrix exceeds min_similarity and no match is *)
(* forced, the graph has no node and no edge once the isolated nodes are   *)
(* removed, and the call returns a table of zero rows and does not raise.  *)
C14_EmptyGraphGivesNoRows ==
    (match_pc # "input" /\ enforce_match = <<>> /\ NoScoreAbove(Sb, min_similarity)) =>
        /\ B.nodes = {}
        /\ DOMAIN B.weight = {}
        /\ match_pc = "returned"
        /\ match_df = <<>>

(* Such a call, with a score that is positive and one that is equal to the *)
(* threshold.                                                              *)
C14_Witness ==
    /\ match_pc = "returned"
    /\ enforce_match = <<>>
    /\ NoScoreAbove(Sb, min_similarity)
    /\ \E q \in Range(Sb.index), t \in Range(Sb.columns) :
          At(Sb, t, q) > 0 /\ At(Sb, t, q) = min_similarity
    /\ match_df = <<>>

EdgeOfRow(r) == {r.Query_name, r.Target_name}

(* C18: every returned row reports the weight its edge has in the graph    *)
(* (enforce_match_val for a forced pair), and the rows are in              *)
(* non-increasing order of that weight.                                    *)
C18_RowsReportEdgeWeight ==
    match_pc = "returned" =>
        /\ \A r \in Rows(match_df) : r.S = B.weight[EdgeOfRow(r)]
        /\ \A i, j \in DOMAIN match_df :
              i < j => B.weight[EdgeOfRow(match_df[i])] >= B.weight[EdgeOfRow(match_df[j])]

(* C18 as the code has it: every returned row reports the score of its     *)
(* pair in the caller's matrix, which for a forced pair is the original    *)
(* score and, when no label is both a row and a column, for every other    *)
(* pair the weight of its edge; the rows are in non-increasing order of    *)
(* the reported score.                                                     *)
C18_RowsReportCallersScore ==
    match_pc = "returned" =>
        /\ \A r \in Rows(match_df) :
              /\ r.S = At(Sb, r.Target_name, r.Query_name)
              /\ (/\ Range(Sb.index) \cap Range(Sb.columns) = {}
                  /\ <<r.Query_name, r.Target_name>> \notin ForcedPairs)
                 => r.S = B.weight[EdgeOfRow(r)]
        /\ \A i, j \in DOMAIN match_df : i < j => match_df[i].S >= match_df[j].S

(* Two rows of different scores, the second of them a forced pair that     *)
(* reports its original score and not the forced value.                    *)
C18_Witness ==
    /\ match_pc = "returned"
    /\ Len(match_df) = 2
    /\ match_df[1].S > match_df[2].S
    /\ <<match_df[2].Query_name, match_df[2].Target_name>> \in ForcedPairs
    /\ B.weight[EdgeOfRow(match_df[2])] = enforce_match_val
    /\ match_df[2].S # enforce_match_val

(* C20: max_match_similarity leaves the caller's matrix as it was: the     *)
(* forced cells keep their original scores.                                *)
C20_CallersMatrixUnchanged == [][Sb' = Sb]_vars

(* A call with a forced pair whose edge has the forced value while its     *)
(* cell of the caller's matrix holds another score.                        *)
C20_Witness ==
    /\ match_pc = "returned"
    /\ \E f \in ForcedPairs :
          /\ {f[1], f[2]} \in DOMAIN B.weight
          /\ B.weight[{f[1], f[2]}] = enforce_match_val
          /\ At(Sb, f[2], f[1]) # enforce_match_val

----------------------------------------------------------------------------
(* The score table on its own.                                             *)

InitLookup == Build /\ MatchIdle /\ PairIdle /\ PoolIdle /\ FusionIdle /\ CallIdle

NextLookup == Score /\ UNCHANGED <<match_vars, pair_vars, pool_vars, fusion_vars, call_vars>>

SpecLookup == InitLookup /\ [][NextLookup]_vars

(* C10: score never reads outside the n x m matrix; a value below the      *)
(* first boundary falls in the first bin and a value above the last        *)
(* boundary in the last bin, on either axis.                               *)
C10_ScoreStaysInMatrix ==
    score_pc \notin {"built", "idle"} =>
        LET n == Len(score_labels[1])
            m == Len(score_labels[2])
            firstOf(labels) == labels[1].tokens[1]
            lastOf(labels) == labels[Len(labels)].tokens[1]
        IN /\ score_pc = "scored"
           /\ score_inds[1] \in 0 .. n - 1
           /\ score_inds[2] \in 0 .. m - 1
           /\ \A ax \in 1 .. 2 :
                 /\ FloatLess(score_args[ax], firstOf(score_labels[ax]))
                       => score_inds[ax] = 0
                 /\ FloatLess(lastOf(score_labels[ax]), score_args[ax])
                       => score_inds[ax] = Len(score_labels[ax]) - 1

(* A call with the distance below the first boundary and the alignment     *)
(* above the last one, on a table of several bins.                         *)
C10_Witness ==
    /\ score_pc = "scored"
    /\ Len(score_labels[1]) >= 2 /\ Len(score_labels[2]) >= 2
    /\ FloatLess(score_args[1], score_labels[1][1].tokens[1])
    /\ FloatLess(score_labels[2][Len(score_labels[2])].tokens[1], score_args[2])
    /\ score_inds = <<0, Len(score_labels[2]) - 1>>

(* x lies strictly inside bin i of the labels: above its lower boundary    *)
(* and below the lower boundary of the next bin, the last bin being open.  *)
StrictlyInBin(labels, x, i) ==
    /\ FloatLess(labels[i].tokens[1], x)
    /\ FloatLess(x, IF i < Len(labels) THEN labels[i + 1].tokens[1] ELSE Inf)

(* C11: round trip of the score table: a query strictly inside bin i of    *)
(* the distance axis and bin j of the alignment axis returns the matrix    *)
(* entry stored for (i, j), for every bin, the first and the last too.     *)
C11_RoundTrip ==
    score_pc \notin {"built", "idle"} =>
        \A i \in DOMAIN score_labels[1], j \in DOMAIN score_labels[2] :
            (StrictlyInBin(score_labels[1], score_args[1], i)
               /\ StrictlyInBin(score_labels[2], score_args[2], j))
            => /\ score_pc = "scored"
               /\ score_inds = <<i - 1, j - 1>>
               /\ score_out = score_lookup.mat[i][j]

(* A query inside a middle bin of the distance axis and inside the last    *)
(* bin of the alignment axis of a table of three bins by two or more.      *)
C11_Witness ==
    /\ score_pc = "scored"
    /\ Len(score_labels[1]) >= 3 /\ Len(score_labels[2]) >= 2
    /\ StrictlyInBin(score_labels[1], score_args[1], 2)
    /\ StrictlyInBin(score_labels[2], score_args[2], Len(score_labels[2]))
    /\ score_out = TableEntry(2, Len(score_labels[2]))

----------------------------------------------------------------------------
(* The pair scores on their own.                                           *)

InitPair == PairInput /\ PairTable /\ MatchIdle /\ PoolIdle /\ FusionIdle /\ CallIdle

NextPair ==
    /\ \/ NblastNeuronPair("qt")
       \/ NblastNeuronPair("tq")
       \/ NblastNeuronPairForMp("qt")
       \/ NblastNeuronPairForMp("tq")
    /\ UNCHANGED <<match_vars, lookup_vars, pool_vars, fusion_vars, call_vars>>

SpecPair == InitPair /\ [][NextPair]_vars

(* Properties of the pair scores, checked under SpecPair.                  *)

(* C5: the bidirectional score is symmetric: nblast_neuron_pair(A, B) and  *)
(* nblast_neuron_pair(B, A), both bidirectional, return the same score.    *)
C5_BidirectionalSymmetric ==
    (/\ pair_call.fn = "nblast_neuron_pair"
     /\ pair_call.bidirectional
     /\ pair_out.qt.status = "returned"
     /\ pair_out.tq.status = "returned") =>
        pair_out.qt.S = pair_out.tq.S

(* A dotprop of at most one point, the all-NaN row included.               *)
Degenerate(dp) == Len(dp) <= 1

(* The dotprops nblast_neuron_pair makes of its two neurons.               *)
PairDotprop(nrn) == neuron_to_dotprop(nrn, pair_call.resample_distance, NumNN, None, 1).dp

----------------------------------------------------------------------------
(* nblast_neurons on its own.                                              *)

InitPool == PoolInput /\ PairTable /\ MatchIdle /\ PairIdle /\ FusionIdle /\ CallIdle

NextPool ==
    NblastNeurons /\ UNCHANGED <<match_vars, lookup_vars, pair_vars, fusion_vars, call_vars>>

SpecPool == InitPool /\ [][NextPool]_vars

(* The score of query neuron q against target neuron t.                    *)
PairScores(q, t) ==
    { o.S : o \in nblast_neuron_pair_for_mp(DotpropOf(pool_call, q), DotpropOf(pool_call, t),
                                            score_lookup, pool_call.normalize,
                                            pool_call.max_proximity) }

(* C8: in whatever order the workers finish, the table nblast_neurons      *)
(* returns has exactly one row for every ordered (query, target) pair, and *)
(* the S of a row is the score of the pair the row names.                  *)
C8_RowsHoldTheirPairsScore ==
    pool_pc = "done" =>
        LET nrns_q == pool_call.nrns_q
            nrns_t == TargetsOf(pool_call)
        IN /\ Len(pool_df) = Len(nrns_q) * Len(nrns_t)
           /\ \A i \in DOMAIN nrns_q, j \in DOMAIN nrns_t :
                 \E k \in DOMAIN pool_df :
                    /\ pool_df[k].Queries = PoolName(pool_call, nrns_q[i])
                    /\ pool_df[k].Targets = PoolName(pool_call, nrns_t[j])
                    /\ pool_df[k].S \in PairScores(nrns_q[i], nrns_t[j])
                    /\ \A m \in DOMAIN pool_df :
                          (pool_df[m].Queries = pool_df[k].Queries
                             /\ pool_df[m].Targets = pool_df[k].Targets) => m = k

(* A pair score arrived before that of an earlier pair, and the scores of  *)
(* the pairs all differ.                                                   *)
C8_Witness ==
    /\ pool_pc = "done"
    /\ pool_overtaken
    /\ Len(pool_df) >= 2
    /\ \A k \in DOMAIN pool_df, m \in DOMAIN pool_df : pool_df[k].S = pool_df[m].S => k = m

----------------------------------------------------------------------------
(* match_likelihood_ratio on its own.                                      *)

InitFusion == FusionInput /\ PairTable /\ MatchIdle /\ PairIdle /\ PoolIdle /\ CallIdle

NextFusion ==
    MatchLikelihoodRatio /\ UNCHANGED <<match_vars, lookup_vars, pair_vars, pool_vars, call_vars>>

SpecFusion == InitFusion /\ [][NextFusion]_vars

SourceRow(source, row) == CHOOSE r \in Range(fusion_sources[source].rows) : SameKey(r, row)

InSource(source, row) == \E r \in Range(fusion_sources[source].rows) : SameKey(r, row)

(* C6: every row of the frame match_likelihood_ratio returns carries the   *)
(* values of its pair from all the sources, Sqt, Stq, the soma distance    *)
(* and the pre and post connectivity, and its logP is computed from all of *)
(* them; a pair missing from a source has no row.                          *)
C6_RowsCarryAllSources ==
    fusion_pc = "returned" =>
        \A row \in Range(fusion_Stot.rows) :
            /\ \A source \in DOMAIN fusion_sources : InSource(source, row)
            /\ row.Sqt = SourceRow("Sqt", row).Sqt
            /\ row.Stq = SourceRow("Stq", row).Stq
            /\ row.soma_distance = SourceRow("Ds", row).soma_distance
            /\ row.pre_prob = SourceRow("P_con", row).pre_prob
            /\ row.post_prob = SourceRow("P_con", row).post_prob
            /\ row.logP = [morph |-> match_prob_morpho_log_ratio(
                                        RatioSqrt(RatioMul(row.Sqt, row.Stq)),
                                        row.soma_distance),
                           conn |-> row.post_prob + row.pre_prob]

(* Some pairs have all their sources and are returned, and a pair that has *)
(* its scores has no connectivity.                                         *)
C6_Witness ==
    /\ fusion_pc = "returned"
    /\ Len(fusion_Stot.rows) >= 1
    /\ FrameKeys(fusion_sources.Sqt) \ FrameKeys(fusion_sources.P_con) # {}
    /\ \E row \in Range(fusion_Stot.rows) : row.logP.conn # 0 /\ row.Sqt.num # 0

SourcesDisagree ==
    \E a \in DOMAIN fusion_sources, b \in DOMAIN fusion_sources :
        FrameKeys(fusion_sources[a]) # FrameKeys(fusion_sources[b])

----------------------------------------------------------------------------
(* match_prob_conn_log_ratio on its own.                                   *)

InitConn == ConnInput /\ LookupIdle /\ MatchIdle /\ PairIdle /\ PoolIdle /\ FusionIdle

NextConn ==
    MatchProbConnLogRatio
        /\ UNCHANGED <<match_vars, lookup_vars, pair_vars, pool_vars, fusion_vars>>

SpecConn == InitConn /\ [][NextConn]_vars

(* C12: for all weights w1, w2 >= 0, also beyond the table, the call       *)
(* returns, the indices it reads the table at are within 0 .. rows-1 and   *)
(* 0 .. columns-1, and a shift takes the same amount from both weights, so *)
(* that w1 - w2 is kept.                                                   *)
C12_ShiftedIndicesInBounds ==
    (fn_call.fn = "match_prob_conn_log_ratio" /\ fn_out # NotCalled) =>
        /\ fn_out.status = "returned"
        /\ fn_out.read => (fn_out.w1 \in 0 .. fn_call.rows - 1
                             /\ fn_out.w2 \in 0 .. fn_call.cols - 1)
        /\ fn_out.shifted => fn_out.w1 - fn_out.w2 = fn_call.w1 - fn_call.w2

----------------------------------------------------------------------------
(* match_prob_morpho_log_ratio on its own.                                 *)

InitMorpho == MorphoInput /\ LookupIdle /\ MatchIdle /\ PairIdle /\ PoolIdle /\ FusionIdle

NextMorpho ==
    MatchProbMorphoLogRatio
        /\ UNCHANGED <<match_vars, lookup_vars, pair_vars, pool_vars, fusion_vars>>

SpecMorpho == InitMorpho /\ [][NextMorpho]_vars

(* C13: the value returned is finite for every pair: a log odds of the     *)
(* soma distance that is not finite (nan, +inf or -inf) is replaced by 1.0 *)
(* and nothing that is not finite reaches the total.                       *)
C13_TotalIsFinite ==
    (fn_call.fn = "match_prob_morpho_log_ratio" /\ fn_out # NotCalled) =>
        /\ fn_out.raw.kind # "finite" => fn_out.dprob = LogOf(2, 1)
        /\ fn_out.dprob.kind = "finite"
        /\ fn_out.total.kind = "finite"

----------------------------------------------------------------------------
(* interpolate_path on its own.                                            *)

InitInterp == InterpInput /\ PairTable /\ MatchIdle /\ PairIdle /\ PoolIdle /\ FusionIdle

NextInterp ==
    InterpolatePath
        /\ UNCHANGED <<match_vars, lookup_vars, pair_vars, pool_vars, fusion_vars>>

SpecInterp == InitInterp /\ [][NextInterp]_vars

(* C15: interpolate_path returns 2 resampled points or more for every      *)
(* path, also for one shorter than resample_distance.                      *)
C15_AtLeastTwoPoints ==
    (fn_call.fn = "interpolate_path" /\ fn_out # NotCalled) => Len(fn_out.xyzi) >= 2

----------------------------------------------------------------------------
(* neuron_comparison_nblast_components on its own.                         *)

InitComparison ==
    ComparisonInput /\ PairTable /\ MatchIdle /\ PairIdle /\ PoolIdle /\ FusionIdle

NextComparison ==
    /\ \/ NeuronComparisonNblastComponents("a")
       \/ NeuronComparisonNblastComponents("b")
    /\ UNCHANGED <<match_vars, lookup_vars, pair_vars, pool_vars, fusion_vars>>

SpecComparison == InitComparison /\ [][NextComparison]_vars

Runs == {"a", "b"}

RunDone(run) ==
    fn_call.fn = "neuron_comparison_nblast_components" /\ fn_out[run].status = "returned"

(* The nearest distance of every source point is strictly greater than     *)
(* max_proximity.                                                          *)
GateOpen(run) ==
    /\ fn_call.max_proximity # None
    /\ \A i \in DOMAIN fn_call.source_dp :
          NearestDistance(RunTarget(fn_call, run), RunSource(fn_call, run)[i].x)
             > fn_call.max_proximity

(* The dot products of source point i with its nearest target points.      *)
MatchedDots(run, i) ==
    LET src == RunSource(fn_call, run)
        tgt == RunTarget(fn_call, run)
    IN {Dot(src[i].v, tgt[j].v) : j \in NearestIndices(tgt, src[i].x)}

(* C16: the gate is one switch per pair. If the least nearest distance is  *)
(* strictly greater than max_proximity every alignment is the dot product  *)
(* of the matched orientations, otherwise every alignment is 1.0, never    *)
(* some of each; the nearest distances are recorded as they are in both    *)
(* cases.                                                                  *)
C16_GateIsOneSwitch ==
    \A run \in Runs : RunDone(run) =>
        LET rows == fn_out[run].rows IN
        /\ DOMAIN rows = DOMAIN fn_call.source_dp
        /\ \A i \in DOMAIN rows :
              rows[i][1] = NearestDistance(RunTarget(fn_call, run),
                                           RunSource(fn_call, run)[i].x)
        /\ GateOpen(run) => \A i \in DOMAIN rows : rows[i][2] \in MatchedDots(run, i)
        /\ ~GateOpen(run) => \A i \in DOMAIN rows : rows[i][2] = One

(* Two source points, the first farther than max_proximity from the target *)
(* and with an orientation across that of its match, the second not        *)
(* farther: the gate is closed for both. In the other run the target is    *)
(* turned, and so is it there.                                             *)
C16_Witness ==
    /\ RunDone("a") /\ RunDone("b")
    /\ Len(fn_out.a.rows) = 2
    /\ fn_call.max_proximity # None
    /\ fn_out.a.rows[1][1] > fn_call.max_proximity
    /\ ~(fn_out.a.rows[2][1] > fn_call.max_proximity)
    /\ One \notin MatchedDots("a", 1)
    /\ fn_out.a.rows[1][2] = One

(* A run with the gate open on two points, with alignments other than 1.0. *)
GateOpenOnTwo ==
    /\ RunDone("a")
    /\ Len(fn_out.a.rows) = 2
    /\ GateOpen("a")
    /\ \A i \in 1 .. 2 : fn_out.a.rows[i][2] # One

(* C17: an alignment computed from the orientations is the absolute value  *)
(* of the dot product of the matched orientations, never negative.         *)
C17_AlignmentIsAbsolute ==
    \A run \in Runs : (RunDone(run) /\ GateOpen(run)) =>
        \A i \in DOMAIN fn_out[run].rows :
            /\ fn_out[run].rows[i][2] >= 0
            /\ fn_out[run].rows[i][2] \in {Abs(u) : u \in MatchedDots(run, i)}

(* C19: with max_proximity left at None, the run on the dotprops and the   *)
(* run on the same positions with other orientations give the same         *)
(* alignments, all 1.0, and the same score.                                *)
C19_NoProximityIgnoresOrientation ==
    (RunDone("a") /\ RunDone("b") /\ fn_call.max_proximity = None) =>
        /\ fn_out.a.rows = fn_out.b.rows
        /\ \A i \in DOMAIN fn_out.a.rows : fn_out.a.rows[i][2] = One
        /\ fn_out.a.S = fn_out.b.S

(* Both runs done on dotprops of two points each, no source point on a     *)
(* target point, and orientations whose dot product the turn changes.      *)
C19_Witness ==
    /\ RunDone("a") /\ RunDone("b")
    /\ fn_call.max_proximity = None
    /\ Len(fn_call.source_dp) = 2 /\ Len(fn_call.target_dp) = 2
    /\ \A i \in 1 .. 2 : fn_out.a.rows[i][1] > 0
    /\ \A i \in 1 .. 2 : MatchedDots("a", i) # MatchedDots("b", i)

====
